---- MODULE Spec2Model ----
(***************************************************************************)
(* Antu Kuyen Agro front-end: the video generation workflow               *)
(* (services/geminiService generateVideo), the catalogue assistant         *)
(* (askCatalogAssistant), the UI state container that drives them (App:    *)
(* handleGenerate, handleSendMessage, navigation) and the studio form      *)
(* (PromptForm).                                                           *)
(*                                                                         *)
(* JavaScript values are modelled as follows.  A nullable value is a       *)
(* sequence of length at most one: Null is <<>> (null or undefined) and    *)
(* Some(v) is <<v>>.  A string that the code inspects (the prompt) is a    *)
(* sequence of characters.  An object with optional fields (the provider   *)
(* payload, the provider config) is a function whose domain is the set of  *)
(* fields that are present.  An Error is a record with its message.        *)
(***************************************************************************)
EXTENDS Integers, Sequences, FiniteSets, TLC

\* ------------------------------------------------------------------ bounds
\* longest prompt drawn as input
MaxPromptLen == 1
\* longest referenceImages array drawn as input
MaxRefs == 3
\* number of getVideosOperation polls explored per call
MaxPolls == 3
\* number of object URLs created before the form stops taking submissions
MaxUrls == 2
\* number of chat messages sent
MaxSends == 2
\* number of file conversions of the form in flight at once
MaxConverting == 2

\* ------------------------------------------------------- program constants
\* if (referenceImagesPayload.length < 3)
RefCap == 3

\* ------------------------------------------------------------- JS values
Null == <<>>

Some(v) == <<v>>

\* if (v): an object reference is truthy iff it is neither null nor undefined
Truthy(v) == v # Null

\* the object behind a reference that is not null
Val(v) == v[1]

Nullable(S) == {Null} \cup {Some(v) : v \in S}

\* src/types.ts enums
IDLE == "IDLE"
LOADING == "LOADING"
SUCCESS == "SUCCESS"
ERROR == "ERROR"
AppState == {IDLE, LOADING, SUCCESS, ERROR}

VEO_FAST == "veo-3.1-fast-generate-preview"
VEO == "veo-3.1-generate-preview"
VeoModel == {VEO_FAST, VEO}

LANDSCAPE == "16:9"
PORTRAIT == "9:16"
AspectRatio == {LANDSCAPE, PORTRAIT}

P720 == "720p"
P1080 == "1080p"
Resolution == {P720, P1080}

TEXT_TO_VIDEO == "Text to Video"
FRAMES_TO_VIDEO == "Frames to Video"
REFERENCES_TO_VIDEO == "References to Video"
EXTEND_VIDEO == "Extend Video"
GenerationMode == {TEXT_TO_VIDEO, FRAMES_TO_VIDEO, REFERENCES_TO_VIDEO, EXTEND_VIDEO}

CATALOG == "catalog"
CORPORATE == "corporate"
AI_ASSISTANT == "ai_assistant"
VIDEO_STUDIO == "video_studio"
ViewMode == {CATALOG, CORPORATE, AI_ASSISTANT, VIDEO_STUDIO}

\* ImageFile {file, base64}: two distinct images
ImageFile == {[file |-> [type |-> "image/png"], base64 |-> "AAAA"],
              [file |-> [type |-> "image/jpeg"], base64 |-> "BBBB"]}

\* VideoFile {file, base64}: the raw bytes of an uploaded video
VideoFile == {[file |-> [type |-> "video/mp4"], base64 |-> "VVVV"]}

\* Video: the provider-issued handle of a produced video
Video == {[uri |-> "https%3A%2F%2Fhost%2Fv1%3Falt%3Dmedia"], [uri |-> "https%3A%2F%2Fhost%2Fv2%3Falt%3Dmedia"]}

\* the handle of an earlier generation that a request may carry
StoredVideo == {[uri |-> "https%3A%2F%2Fhost%2Fv1%3Falt%3Dmedia"]}

\* ---------------------------------------------------------------- strings
Space == " "
Chars == {Space, "a"}

SeqsUpTo(S, n) == UNION {[1..k -> S] : k \in 0..n}

Strings == SeqsUpTo(Chars, MaxPromptLen)

\* if (params.prompt): a JS string is truthy iff it is not empty
StringTruthy(s) == Len(s) > 0

RECURSIVE TrimStart(_)
TrimStart(s) == IF s # <<>> /\ Head(s) = Space THEN TrimStart(Tail(s)) ELSE s

RECURSIVE TrimEnd(_)
TrimEnd(s) == IF s # <<>> /\ s[Len(s)] = Space THEN TrimEnd(SubSeq(s, 1, Len(s) - 1)) ELSE s

\* String.prototype.trim()
Trim(s) == TrimEnd(TrimStart(s))

\* -------------------------------------------------------- optional fields
Has(obj, field) == field \in DOMAIN obj

\* obj.field = value
Assign(obj, field, value) ==
    [f \in (DOMAIN obj) \cup {field} |-> IF f = field THEN value ELSE obj[f]]

\* ------------------------------------------------------------ the request
\* GenerateVideoParams
ParamsOver(prompts, models, ratios, resolutions, modes, frames, refs, logos, videos, handles, loops) ==
    [prompt : prompts, model : models, aspectRatio : ratios, resolution : resolutions,
     mode : modes, startFrame : frames, endFrame : frames, referenceImages : refs,
     logoImage : logos, inputVideo : videos, inputVideoObject : handles,
     isLooping : loops]

\* every request drawn for the payload assembly
AllParams ==
    ParamsOver(Strings, VeoModel, AspectRatio, Resolution, GenerationMode,
               Nullable(ImageFile), Nullable(SeqsUpTo(ImageFile, MaxRefs)),
               Nullable(ImageFile), Nullable(VideoFile), Nullable(StoredVideo), BOOLEAN)

\* the requests under which the asynchronous workflow is explored: the fields
\* that decide its control flow vary, the others are fixed
JobParams ==
    ParamsOver({<<"a">>}, {VEO_FAST}, {LANDSCAPE}, {P720}, GenerationMode,
               {Null}, {Some(<<>>)}, {Null}, {Null}, Nullable(StoredVideo), {FALSE})

\* ------------------------------------------------- generateVideo: assembly
\* new Error(message); a message is a tuple of its parts
Error(message) == [message |-> message]

ConfigurationError == Error(<<"An input video object is required to extend a video.">>)

NoVideosError == Error(<<"No videos generated.">>)

\* `Failed to fetch video: ${res.status}`
FetchError(status) == Error(<<"Failed to fetch video: ", status>>)

\* {imageBytes: img.base64, mimeType: img.file.type}
ImagePart(img) == [imageBytes |-> img.base64, mimeType |-> img.file.type]

\* {image: {...}, referenceType: ASSET}
ReferenceEntry(img) == [image |-> ImagePart(img), referenceType |-> "ASSET"]

\* mutant: the aspect ratio is sent in every mode
BuildConfigWithAspectRatio(p) ==
    [numberOfVideos |-> 1, resolution |-> p.resolution, aspectRatio |-> p.aspectRatio]

\* config = {numberOfVideos: 1, resolution}, plus aspectRatio unless extending
BuildConfig(p) ==
    LET config == [numberOfVideos |-> 1, resolution |-> p.resolution]
    IN  IF p.mode # EXTEND_VIDEO
        THEN Assign(config, "aspectRatio", p.aspectRatio)
        ELSE config

\* if (params.prompt) generateVideoPayload.prompt = params.prompt
AttachPrompt(payload, p) ==
    IF StringTruthy(p.prompt) THEN Assign(payload, "prompt", p.prompt) ELSE payload

\* if (params.logoImage) referenceImagesPayload.push(...)
PushLogo(p) ==
    IF Truthy(p.logoImage) THEN <<ReferenceEntry(Val(p.logoImage))>> ELSE <<>>

\* mutant: an off-by-one cap, length <= 3
HasRoomOffByOne(list) == Len(list) <= RefCap

\* referenceImagesPayload.length < 3
HasRoom(list) == Len(list) < RefCap

\* for (const img of params.referenceImages) if (length < 3) push
RECURSIVE PushReferences(_, _)
PushReferences(list, imgs) ==
    IF imgs = <<>> THEN list
    ELSE PushReferences(IF HasRoom(list) THEN Append(list, ReferenceEntry(Head(imgs))) ELSE list,
                        Tail(imgs))

\* referenceImagesPayload after the logo and the reference images were pushed
ReferenceImagesPayload(p) ==
    IF Truthy(p.referenceImages)
    THEN PushReferences(PushLogo(p), Val(p.referenceImages))
    ELSE PushLogo(p)

\* if (referenceImagesPayload.length > 0) config.referenceImages = ...
AttachReferences(payload, p) ==
    LET list == ReferenceImagesPayload(p)
    IN  IF Len(list) > 0
        THEN Assign(payload, "config", Assign(payload.config, "referenceImages", list))
        ELSE payload

\* mutant: an explicit end frame wins over the loop flag
FinalEndFramePrefersEnd(p) ==
    IF Truthy(p.endFrame) THEN p.endFrame ELSE IF p.isLooping THEN p.startFrame ELSE Null

\* isLooping ? startFrame : endFrame
FinalEndFrame(p) == IF p.isLooping THEN p.startFrame ELSE p.endFrame

\* the FRAMES_TO_VIDEO branch
AttachFrames(payload, p) ==
    LET withImage == IF Truthy(p.startFrame)
                     THEN Assign(payload, "image", ImagePart(Val(p.startFrame)))
                     ELSE payload
    IN  IF Truthy(FinalEndFrame(p))
        THEN Assign(withImage, "config",
                    Assign(withImage.config, "lastFrame", ImagePart(Val(FinalEndFrame(p)))))
        ELSE withImage

\* mutant: the missing handle is not checked before the submission
ExtendNeverThrows(p) == FALSE

\* the EXTEND_VIDEO branch throws when there is no inputVideoObject
ExtendThrows(p) == p.mode = EXTEND_VIDEO /\ ~Truthy(p.inputVideoObject)

\* mutant: every populated field is attached, whatever the mode
AttachPopulatedFields(payload, p) ==
    LET withFrames == AttachFrames(payload, p)
    IN  IF Truthy(p.inputVideoObject)
        THEN Assign(withFrames, "video", Val(p.inputVideoObject))
        ELSE withFrames

\* the mode-specific part of the payload
AttachModeFields(payload, p) ==
    IF p.mode = FRAMES_TO_VIDEO THEN AttachFrames(payload, p)
    ELSE IF p.mode = EXTEND_VIDEO /\ Truthy(p.inputVideoObject)
         THEN Assign(payload, "video", Val(p.inputVideoObject))
         ELSE payload

\* generateVideoPayload as it stands when generateVideos is called
BuildPayload(p) ==
    AttachModeFields(
        AttachReferences(
            AttachPrompt([model |-> p.model, config |-> BuildConfig(p)], p), p), p)

\* ------------------------------------------------------------ the provider
OperationNames == {"operations/op1", "operations/op2"}

\* GeneratedVideo {video?}
GeneratedVideo == [video : Nullable(Video)]

\* the generatedVideos lists the provider answers with
VideoLists ==
    {<<>>,
     <<[video |-> Some([uri |-> "https%3A%2F%2Fhost%2Fv1%3Falt%3Dmedia"])]>>,
     <<[video |-> Some([uri |-> "https%3A%2F%2Fhost%2Fv2%3Falt%3Dmedia"])],
       [video |-> Some([uri |-> "https%3A%2F%2Fhost%2Fv1%3Falt%3Dmedia"])]>>,
     <<[video |-> Null]>>}

\* operation.response: absent, or {generatedVideos?}
Responses == Nullable([generatedVideos : Nullable(VideoLists)])

\* GenerateVideosOperation {name, done, response}: a result comes with done
Operations(name) ==
    {[name |-> name, done |-> FALSE, response |-> Null]}
        \cup [name : {name}, done : {TRUE}, response : Responses]

\* the messages of the errors a provider call or a fetch rejects with
ProviderMessages == {<<"quota exceeded">>, <<"">>}

\* res.status of the asset fetch
FetchStatuses == {200, 403, 500}

\* mutant: only server errors count as failures
ResOkBelow500(status) == status < 500

\* res.ok
ResOk(status) == status >= 200 /\ status <= 299

\* decodeURIComponent(videoObject.uri)
DecodeURIComponent(uri) ==
    CASE uri = "https%3A%2F%2Fhost%2Fv1%3Falt%3Dmedia" -> "https://host/v1?alt=media"
      [] uri = "https%3A%2F%2Fhost%2Fv2%3Falt%3Dmedia" -> "https://host/v2?alt=media"
      [] OTHER -> uri

\* ------------------------------------------------------------------- state
VARIABLES
    aistudio,           \* window.aistudio is defined
    appState,           \* App: useState<AppState>
    videoUrl,           \* App: useState<string | null>
    errorMessage,       \* App: useState<string | null>
    showApiKeyDialog,   \* App: useState(false)
    pc,                 \* where the handleGenerate call in flight is suspended
    params,             \* the request of that call
    sent,               \* the payload handed to ai.models.generateVideos
    operation,          \* generateVideo: let operation
    outcome,            \* how generateVideo's promise settled
    fetchStatus,        \* res.status of the asset fetch
    submitCalls,        \* ai.models.generateVideos calls made by this call
    pollCalls,          \* ai.operations.getVideosOperation calls made by this call
    polled,             \* the operation handed to the latest getVideosOperation call
    fetchCalls,         \* fetch calls made by this call
    urlsCreated,        \* URL.createObjectURL calls made by this call
    liveUrls,           \* the object URLs created and not revoked
    view,               \* App: useState<ViewMode>
    chatMessages,       \* App: useState<ChatMessage[]>
    chatInput,          \* App: useState('')
    isChatLoading,      \* App: useState(false)
    chatCalls,          \* the askCatalogAssistant calls made: arguments and request
    chatOutcome,        \* how the latest askCatalogAssistant promise settled
    form,               \* PromptForm: its useState fields
    converting,         \* PromptForm: the fileToBase64 conversions in flight
    otherCall,          \* a handleGenerate call made while the call above awaited the key check
    mountCheck          \* where the checkApiKey call of the mount effect is suspended

\* the host and the calls that run beside the handleGenerate call followed step by step
hostVars == <<aistudio, otherCall, mountCheck>>

appVars == <<appState, videoUrl, errorMessage, showApiKeyDialog>>

callVars == <<pc, params, sent, operation, outcome, fetchStatus,
              submitCalls, pollCalls, polled, fetchCalls, urlsCreated>>

chatVars == <<chatMessages, chatInput, isChatLoading, chatCalls, chatOutcome>>

formVars == <<form, converting>>

uiVars == <<view, chatVars, formVars>>

vars == <<hostVars, liveUrls, appVars, callVars, uiVars>>

\* the first entry of chatMessages (text abridged)
WelcomeMessage == [role |-> "model", text |-> <<"Bienvenido al Catalogo 2025-2026 de Antu Kuyen.">>]

\* the useState initial values of PromptForm when no initialValues are passed
FormDefaults ==
    [prompt |-> <<>>, model |-> VEO_FAST, aspectRatio |-> LANDSCAPE, resolution |-> P720,
     generationMode |-> TEXT_TO_VIDEO, startFrame |-> Null, endFrame |-> Null,
     referenceImages |-> <<>>, logoImage |-> Null, inputVideo |-> Null,
     inputVideoObject |-> Null, isLooping |-> FALSE]

Pending == [kind |-> "pending", error |-> Null, value |-> Null]

NoOutcome == [kind |-> "none", error |-> Null, value |-> Null]

\* no second handleGenerate call has been made
NoCall == [pc |-> "none", params |-> Null, outcome |-> NoOutcome]

InitWith(hosts, views) ==
    /\ aistudio \in hosts
    /\ otherCall = NoCall
    /\ mountCheck = IF aistudio THEN "awaitKey" ELSE "done"
    /\ view \in views
    /\ liveUrls = {}
    /\ chatMessages = <<WelcomeMessage>>
    /\ chatInput = <<>>
    /\ isChatLoading = FALSE
    /\ chatCalls = <<>>
    /\ chatOutcome = NoOutcome
    /\ form = FormDefaults
    /\ converting = {}
    /\ appState = IDLE
    /\ videoUrl = Null
    /\ errorMessage = Null
    /\ showApiKeyDialog = FALSE
    /\ pc = "idle"
    /\ params = Null
    /\ sent = Null
    /\ operation = Null
    /\ outcome = NoOutcome
    /\ fetchStatus = Null
    /\ submitCalls = 0
    /\ pollCalls = 0
    /\ polled = Null
    /\ fetchCalls = 0
    /\ urlsCreated = 0

Init == InitWith(BOOLEAN, {CATALOG})

\* --------------------------------------------------- generateVideo: steps
\* mutant: a failure is recorded and the call goes back to polling
ThrowAndRetry(err) ==
    /\ outcome' = [kind |-> "rejected", error |-> Some(err), value |-> Null]
    /\ pc' = "sleeping"

\* throw: the promise of generateVideo rejects with err
Throw(err) ==
    /\ outcome' = [kind |-> "rejected", error |-> Some(err), value |-> Null]
    /\ pc' = "settled"

\* return {objectUrl, blob, uri, video}
Return(result) ==
    /\ outcome' = [kind |-> "resolved", error |-> Null, value |-> Some(result)]
    /\ pc' = "settled"

\* generateVideo from its first line to its first await: the payload is
\* assembled and either the extend branch throws or generateVideos is called
GenerateVideo(p) ==
    /\ params' = Some(p)
    /\ operation' = Null
    /\ fetchStatus' = Null
    /\ pollCalls' = 0
    /\ polled' = Null
    /\ fetchCalls' = 0
    /\ urlsCreated' = 0
    /\ IF ExtendThrows(p)
       THEN /\ Throw(ConfigurationError)
            /\ sent' = Null
            /\ submitCalls' = 0
       ELSE /\ sent' = Some(BuildPayload(p))
            /\ submitCalls' = 1
            /\ outcome' = Pending
            /\ pc' = "awaitSubmit"

\* mutant: the loop does not test done
LoopForever(op) == TRUE

\* mutant: the loop gives up after two polls
LoopWithAttemptLimit(op) == ~op.done /\ pollCalls < 2

\* while (!operation.done)
LoopContinues(op) == ~op.done

\* mutant: the empty generatedVideos list is not tested
InspectWithoutEmptyCheck(op) ==
    IF Truthy(op.response)
    THEN LET videos == Val(op.response).generatedVideos
         IN  IF ~Truthy(videos)
             THEN [error |-> Some(NoVideosError), video |-> Null]
             ELSE IF Len(Val(videos)) = 0 \/ ~Truthy(Val(videos)[1].video)
                  THEN [error |-> Some(Error(<<"Cannot read properties of undefined (reading 'video')">>)),
                        video |-> Null]
                  ELSE [error |-> Null, video |-> Val(videos)[1].video]
    ELSE [error |-> Some(NoVideosError), video |-> Null]

\* lines 161-167: what the finished operation holds
Inspect(op) ==
    IF Truthy(op.response)
    THEN LET videos == Val(op.response).generatedVideos
         IN  IF ~Truthy(videos) \/ Len(Val(videos)) = 0
             THEN [error |-> Some(NoVideosError), video |-> Null]
             ELSE IF ~Truthy(Val(videos)[1].video)
                  THEN [error |-> Some(Error(<<"Cannot read properties of undefined (reading 'uri')">>)),
                        video |-> Null]
                  ELSE [error |-> Null, video |-> Val(videos)[1].video]
    ELSE [error |-> Some(NoVideosError), video |-> Null]

\* the code that runs once a provider call answered with op: the loop test,
\* then either the 10 s timer or the inspection of the result and the fetch
AfterOperation(op) ==
    /\ operation' = Some(op)
    /\ IF LoopContinues(op)
       THEN /\ pc' = "sleeping"
            /\ UNCHANGED <<outcome, fetchCalls>>
       ELSE IF Truthy(Inspect(op).error)
            THEN /\ Throw(Val(Inspect(op).error))
                 /\ UNCHANGED fetchCalls
            ELSE /\ fetchCalls' = fetchCalls + 1
                 /\ pc' = "awaitFetch"
                 /\ UNCHANGED outcome

\* await ai.models.generateVideos(...) resolves
SubmitResolves(op) ==
    /\ pc = "awaitSubmit"
    /\ AfterOperation(op)
    /\ UNCHANGED <<hostVars, uiVars, appVars, params, sent, fetchStatus, submitCalls, pollCalls, polled, urlsCreated, liveUrls>>

\* await ai.models.generateVideos(...) rejects
SubmitRejects(msg) ==
    /\ pc = "awaitSubmit"
    /\ Throw(Error(msg))
    /\ UNCHANGED <<hostVars, uiVars, appVars, params, sent, operation, fetchStatus,
                   submitCalls, pollCalls, polled, fetchCalls, urlsCreated, liveUrls>>

\* the setTimeout of 10000 ms fires and getVideosOperation({operation}) is called
TimerFires ==
    /\ pc = "sleeping"
    /\ pollCalls < MaxPolls
    /\ pollCalls' = pollCalls + 1
    /\ polled' = operation
    /\ pc' = "awaitPoll"
    /\ UNCHANGED <<hostVars, uiVars, appVars, params, sent, operation, outcome, fetchStatus,
                   submitCalls, fetchCalls, urlsCreated, liveUrls>>

\* await ai.operations.getVideosOperation(...) resolves
PollResolves(op) ==
    /\ pc = "awaitPoll"
    /\ op.name = Val(operation).name
    /\ AfterOperation(op)
    /\ UNCHANGED <<hostVars, uiVars, appVars, params, sent, fetchStatus, submitCalls, pollCalls, polled, urlsCreated, liveUrls>>

\* await ai.operations.getVideosOperation(...) rejects
PollRejects(msg) ==
    /\ pc = "awaitPoll"
    /\ Throw(Error(msg))
    /\ UNCHANGED <<hostVars, uiVars, appVars, params, sent, operation, fetchStatus,
                   submitCalls, pollCalls, polled, fetchCalls, urlsCreated, liveUrls>>

\* await fetch(...) resolves with a response of the given status
FetchResolves(status) ==
    /\ pc = "awaitFetch"
    /\ fetchStatus' = Some(status)
    /\ IF ~ResOk(status)
       THEN Throw(FetchError(status))
       ELSE /\ pc' = "awaitBlob"
            /\ UNCHANGED outcome
    /\ UNCHANGED <<hostVars, uiVars, appVars, params, sent, operation,
                   submitCalls, pollCalls, polled, fetchCalls, urlsCreated, liveUrls>>

\* await fetch(...) rejects (no response)
FetchRejects(msg) ==
    /\ pc = "awaitFetch"
    /\ Throw(Error(msg))
    /\ UNCHANGED <<hostVars, uiVars, appVars, params, sent, operation, fetchStatus,
                   submitCalls, pollCalls, polled, fetchCalls, urlsCreated, liveUrls>>

\* URL.createObjectURL(videoBlob): a URL that no earlier call returned; the
\* code never calls URL.revokeObjectURL, so every URL created stays live
CreateObjectURL == <<"blob:", Cardinality(liveUrls) + 1>>

\* the value generateVideo returns
Result(op) ==
    LET video == Val(Inspect(op).video)
        url == DecodeURIComponent(video.uri)
    IN  [objectUrl |-> CreateObjectURL, blob |-> url, uri |-> url, video |-> video]

\* await res.blob() resolves: URL.createObjectURL, return
BlobResolves ==
    /\ pc = "awaitBlob"
    /\ urlsCreated' = urlsCreated + 1
    /\ liveUrls' = liveUrls \cup {CreateObjectURL}
    /\ Return(Result(Val(operation)))
    /\ UNCHANGED <<hostVars, uiVars, appVars, params, sent, operation, fetchStatus,
                   submitCalls, pollCalls, polled, fetchCalls>>

\* await res.blob() rejects
BlobRejects(msg) ==
    /\ pc = "awaitBlob"
    /\ Throw(Error(msg))
    /\ UNCHANGED <<hostVars, uiVars, appVars, params, sent, operation, fetchStatus,
                   submitCalls, pollCalls, polled, fetchCalls, urlsCreated, liveUrls>>

\* ---------------------------------------------------------- handleGenerate
\* mutant: the error message of an earlier failure is kept
StartGenerationKeepsMessage(p) ==
    /\ appState' = LOADING
    /\ GenerateVideo(p)
    /\ UNCHANGED <<hostVars, uiVars, videoUrl, errorMessage, showApiKeyDialog, liveUrls>>

\* lines 116-119: LOADING, no error message, generateVideo(params)
StartGeneration(p) ==
    /\ appState' = LOADING
    /\ errorMessage' = Null
    /\ GenerateVideo(p)
    /\ UNCHANGED <<hostVars, uiVars, videoUrl, showApiKeyDialog, liveUrls>>

\* PromptForm is rendered only in the studio view while appState is IDLE; one
\* call is followed at a time
FormShown == view = VIDEO_STUDIO /\ appState = IDLE /\ pc = "idle"

\* the form calls onGenerate(p) where there is no window.aistudio
HandleGenerateNoHost(p) ==
    /\ FormShown
    /\ ~aistudio
    /\ StartGeneration(p)

\* the form calls onGenerate(p): await window.aistudio.hasSelectedApiKey()
HandleGenerateHost(p) ==
    /\ FormShown
    /\ aistudio
    /\ pc' = "awaitKey"
    /\ params' = Some(p)
    /\ sent' = Null
    /\ operation' = Null
    /\ outcome' = NoOutcome
    /\ fetchStatus' = Null
    /\ submitCalls' = 0
    /\ pollCalls' = 0
    /\ polled' = Null
    /\ fetchCalls' = 0
    /\ urlsCreated' = 0
    /\ UNCHANGED <<hostVars, uiVars, appVars, liveUrls>>

\* hasSelectedApiKey() resolves true
KeySelected ==
    /\ pc = "awaitKey"
    /\ StartGeneration(Val(params))

\* mutant: a missing key is reported as a failed job
KeyNotSelectedShowsError ==
    /\ pc = "awaitKey"
    /\ showApiKeyDialog' = TRUE
    /\ pc' = "idle"
    /\ appState' = ERROR
    /\ errorMessage' = Some(<<"No API key selected.">>)
    /\ UNCHANGED <<hostVars, uiVars, videoUrl, params, sent, operation,
                   outcome, fetchStatus, submitCalls, pollCalls, polled, fetchCalls, urlsCreated, liveUrls>>

\* hasSelectedApiKey() resolves false: open the dialog and return
KeyNotSelected ==
    /\ pc = "awaitKey"
    /\ showApiKeyDialog' = TRUE
    /\ pc' = "idle"
    /\ UNCHANGED <<hostVars, uiVars, appState, videoUrl, errorMessage, params, sent, operation,
                   outcome, fetchStatus, submitCalls, pollCalls, polled, fetchCalls, urlsCreated, liveUrls>>

\* hasSelectedApiKey() rejects: handleGenerate's own promise rejects, unhandled
KeyCheckRejects ==
    /\ pc = "awaitKey"
    /\ pc' = "idle"
    /\ UNCHANGED <<hostVars, uiVars, appVars, params, sent, operation, outcome, fetchStatus,
                   submitCalls, pollCalls, polled, fetchCalls, urlsCreated, liveUrls>>

\* mutant: the message is shown as it is, even when empty
MessageOfRaw(err) == err.message

\* error.message || 'An unknown error occurred.'
MessageOf(err) ==
    IF err.message # <<"">> THEN err.message ELSE <<"An unknown error occurred.">>

\* lines 120-125: the await of generateVideo resumes in try or in catch
GenerationSettled ==
    /\ pc = "settled"
    /\ pc' = "idle"
    /\ IF outcome.kind = "resolved"
       THEN /\ videoUrl' = Some(Val(outcome.value).objectUrl)
            /\ appState' = SUCCESS
            /\ UNCHANGED errorMessage
       ELSE /\ errorMessage' = Some(MessageOf(Val(outcome.error)))
            /\ appState' = ERROR
            /\ UNCHANGED videoUrl
    /\ UNCHANGED <<hostVars, uiVars, showApiKeyDialog, params, sent, operation, outcome, fetchStatus,
                   submitCalls, pollCalls, polled, fetchCalls, urlsCreated, liveUrls>>

\* ------------------------------------ handleGenerate: a second call beside
\* the submit button stays enabled while a handleGenerate call awaits
\* hasSelectedApiKey(): appState is still IDLE and the form is still rendered
HandleGenerateAgain(p) ==
    /\ view = VIDEO_STUDIO
    /\ appState = IDLE
    /\ aistudio
    /\ pc = "awaitKey"
    /\ otherCall = NoCall
    /\ otherCall' = [pc |-> "awaitKey", params |-> Some(p), outcome |-> NoOutcome]
    /\ UNCHANGED <<aistudio, mountCheck, liveUrls, appVars, callVars, uiVars>>

\* the second call: hasSelectedApiKey() resolves true; lines 116-119, where
\* generateVideo throws at once in extend mode without a video handle
OtherKeySelected ==
    /\ otherCall.pc = "awaitKey"
    /\ appState' = LOADING
    /\ errorMessage' = Null
    /\ otherCall' =
           IF ExtendThrows(Val(otherCall.params))
           THEN [otherCall EXCEPT !.pc = "settled",
                                  !.outcome = [kind |-> "rejected",
                                               error |-> Some(ConfigurationError),
                                               value |-> Null]]
           ELSE [otherCall EXCEPT !.pc = "running"]
    /\ UNCHANGED <<aistudio, mountCheck, liveUrls, videoUrl, showApiKeyDialog, callVars, uiVars>>

\* the second call: hasSelectedApiKey() resolves false
OtherKeyNotSelected ==
    /\ otherCall.pc = "awaitKey"
    /\ showApiKeyDialog' = TRUE
    /\ otherCall' = NoCall
    /\ UNCHANGED <<aistudio, mountCheck, liveUrls, appState, videoUrl, errorMessage,
                   callVars, uiVars>>

\* the second call: hasSelectedApiKey() rejects
OtherKeyCheckRejects ==
    /\ otherCall.pc = "awaitKey"
    /\ otherCall' = NoCall
    /\ UNCHANGED <<aistudio, mountCheck, liveUrls, appVars, callVars, uiVars>>

\* the failures generateVideo ends with after its first await
LateFailures == {NoVideosError, FetchError(403)} \cup {Error(msg) : msg \in ProviderMessages}

\* the second call's generateVideo, from generateVideos to its return, in
\* one step: it returns the object URL it created
OtherGenerationResolves ==
    /\ otherCall.pc = "running"
    /\ liveUrls' = liveUrls \cup {CreateObjectURL}
    /\ otherCall' = [otherCall EXCEPT !.pc = "settled",
                                      !.outcome = [kind |-> "resolved", error |-> Null,
                                                   value |-> Some([objectUrl |-> CreateObjectURL])]]
    /\ UNCHANGED <<aistudio, mountCheck, appVars, callVars, uiVars>>

\* the second call's generateVideo, from generateVideos to a throw, in one step
OtherGenerationRejects(err) ==
    /\ otherCall.pc = "running"
    /\ otherCall' = [otherCall EXCEPT !.pc = "settled",
                                      !.outcome = [kind |-> "rejected", error |-> Some(err),
                                                   value |-> Null]]
    /\ UNCHANGED <<aistudio, mountCheck, liveUrls, appVars, callVars, uiVars>>

\* the second call: lines 120-125, the await of generateVideo resumes
OtherSettled ==
    /\ otherCall.pc = "settled"
    /\ otherCall' = NoCall
    /\ IF otherCall.outcome.kind = "resolved"
       THEN /\ videoUrl' = Some(Val(otherCall.outcome.value).objectUrl)
            /\ appState' = SUCCESS
            /\ UNCHANGED errorMessage
       ELSE /\ errorMessage' = Some(MessageOf(Val(otherCall.outcome.error)))
            /\ appState' = ERROR
            /\ UNCHANGED videoUrl
    /\ UNCHANGED <<aistudio, mountCheck, liveUrls, showApiKeyDialog, callVars, uiVars>>

\* ------------------------------------------------- mount effect: checkApiKey
\* lines 98-105: hasSelectedApiKey() resolves; the dialog opens when it is false
CheckApiKeyResolves(selected) ==
    /\ mountCheck = "awaitKey"
    /\ mountCheck' = "done"
    /\ showApiKeyDialog' = (showApiKeyDialog \/ ~selected)
    /\ UNCHANGED <<aistudio, otherCall, liveUrls, appState, videoUrl, errorMessage,
                   callVars, uiVars>>

\* lines 103-105: hasSelectedApiKey() rejects and the catch opens the dialog
CheckApiKeyRejects ==
    /\ mountCheck = "awaitKey"
    /\ mountCheck' = "done"
    /\ showApiKeyDialog' = TRUE
    /\ UNCHANGED <<aistudio, otherCall, liveUrls, appState, videoUrl, errorMessage,
                   callVars, uiVars>>

\* mutant: a button that goes back to the form is shown while loading too
BackButtonShownWhileLoading == appState # IDLE

\* VideoResult (SUCCESS with a videoUrl) or the error panel (ERROR) is rendered
BackButtonShown ==
    \/ appState = SUCCESS /\ Truthy(videoUrl)
    \/ appState = ERROR

\* onRetry, onNewVideo and the Reintentar button: setAppState(IDLE)
BackToForm ==
    /\ view = VIDEO_STUDIO
    /\ BackButtonShown
    /\ appState' = IDLE
    /\ form' = FormDefaults
    /\ converting' = {}
    /\ UNCHANGED <<hostVars, view, chatVars, videoUrl, errorMessage, showApiKeyDialog,
                   callVars, liveUrls>>

\* ApiKeyDialog onContinue: setShowApiKeyDialog(false)
DialogContinue ==
    /\ showApiKeyDialog
    /\ showApiKeyDialog' = FALSE
    /\ UNCHANGED <<hostVars, uiVars, appState, videoUrl, errorMessage, callVars, liveUrls>>

\* NavItem onClick: setView(mode); the view rendered before is unmounted, and
\* a PromptForm mounted later starts from its initial values
SetView(mode) ==
    /\ mode # view
    /\ view' = mode
    /\ form' = FormDefaults
    /\ converting' = {}
    /\ UNCHANGED <<hostVars, liveUrls, appVars, callVars, chatVars>>

\* ---------------------------------------------------------------- PromptForm
\* what the user types in the prompt box
FormPrompts == {<<>>, <<Space>>, <<"a">>}

\* EPIC_PROMPT_TEMPLATE (abridged)
EPIC_PROMPT_TEMPLATE == <<"a", Space, "a">>

\* the initialValues a parent may pass: model, mode and inputVideoObject vary
FormInitialValues ==
    ParamsOver({<<"a">>}, VeoModel, {LANDSCAPE}, {P720}, GenerationMode,
               {Null}, {Some(<<>>)}, {Null}, {Null}, Nullable(StoredVideo), {FALSE})

\* everything but the form
formFrame == <<hostVars, liveUrls, appVars, callVars, view, chatVars>>

\* useEffect(..., [generationMode]): runs when generationMode changed
ModeEffect(before, f) ==
    IF f.generationMode = before THEN f
    ELSE IF f.generationMode = REFERENCES_TO_VIDEO
         THEN [f EXCEPT !.model = VEO, !.aspectRatio = LANDSCAPE, !.resolution = P720]
         ELSE IF f.generationMode = EXTEND_VIDEO
              THEN [f EXCEPT !.resolution = P720]
              ELSE f

\* useEffect(..., [initialValues]): every field is set from initialValues
FromInitialValues(iv) ==
    [prompt |-> iv.prompt, model |-> iv.model, aspectRatio |-> iv.aspectRatio,
     resolution |-> iv.resolution, generationMode |-> iv.mode,
     startFrame |-> iv.startFrame, endFrame |-> iv.endFrame,
     referenceImages |-> IF Truthy(iv.referenceImages) THEN Val(iv.referenceImages) ELSE <<>>,
     logoImage |-> iv.logoImage, inputVideo |-> iv.inputVideo,
     inputVideoObject |-> iv.inputVideoObject, isLooping |-> iv.isLooping]

\* the parent renders PromptForm with new initialValues
InitialValuesUpdate(iv) ==
    /\ FormShown
    /\ form' = ModeEffect(form.generationMode, FromInitialValues(iv))
    /\ UNCHANGED <<formFrame, converting>>

\* the prompt box onChange: setPrompt
SetPrompt(text) ==
    /\ FormShown
    /\ text # form.prompt
    /\ form' = [form EXCEPT !.prompt = text]
    /\ UNCHANGED <<formFrame, converting>>

\* the model select, disabled in references mode
SetModel(m) ==
    /\ FormShown
    /\ form.generationMode # REFERENCES_TO_VIDEO
    /\ m # form.model
    /\ form' = [form EXCEPT !.model = m]
    /\ UNCHANGED <<formFrame, converting>>

\* the aspect ratio and resolution selects, disabled in references and extend mode
SetAspectRatio(ratio) ==
    /\ FormShown
    /\ form.generationMode \notin {REFERENCES_TO_VIDEO, EXTEND_VIDEO}
    /\ ratio # form.aspectRatio
    /\ form' = [form EXCEPT !.aspectRatio = ratio]
    /\ UNCHANGED <<formFrame, converting>>

SetResolution(res) ==
    /\ FormShown
    /\ form.generationMode \notin {REFERENCES_TO_VIDEO, EXTEND_VIDEO}
    /\ res # form.resolution
    /\ form' = [form EXCEPT !.resolution = res]
    /\ UNCHANGED <<formFrame, converting>>

\* handleSelectMode(mode), followed by the generationMode effect
HandleSelectMode(mode) ==
    /\ FormShown
    /\ form' = ModeEffect(form.generationMode,
                          [form EXCEPT !.generationMode = mode, !.startFrame = Null,
                                       !.endFrame = Null, !.referenceImages = <<>>,
                                       !.logoImage = Null, !.inputVideo = Null,
                                       !.inputVideoObject = Null, !.isLooping = FALSE])
    /\ form' # form
    /\ UNCHANGED <<formFrame, converting>>

\* loadTemplate; its button is rendered in references mode
LoadTemplate ==
    /\ FormShown
    /\ form.generationMode = REFERENCES_TO_VIDEO
    /\ form' = ModeEffect(form.generationMode,
                          [form EXCEPT !.prompt = EPIC_PROMPT_TEMPLATE,
                                       !.generationMode = REFERENCES_TO_VIDEO,
                                       !.model = VEO])
    /\ form' # form
    /\ UNCHANGED <<formFrame, converting>>

\* the upload controls of renderMediaUploads
Slots == {"startFrame", "endFrame", "logoImage", "referenceImages", "inputVideo"}

\* the files a control converts: fileToImageFile or fileToVideoFile
Files(slot) == IF slot = "inputVideo" THEN VideoFile ELSE ImageFile

\* referenceImages.length < 2
AddProductShown(f) == Len(f.referenceImages) < 2

\* the control of a slot is rendered and shows its file input (an ImageUpload
\* or VideoUpload that holds a file shows the preview instead)
PickerShown(slot) ==
    CASE slot = "startFrame" ->
             form.generationMode = FRAMES_TO_VIDEO /\ form.startFrame = Null
      [] slot = "endFrame" ->
             form.generationMode = FRAMES_TO_VIDEO /\ ~form.isLooping /\ form.endFrame = Null
      [] slot = "logoImage" ->
             form.generationMode = REFERENCES_TO_VIDEO /\ form.logoImage = Null
      [] slot = "referenceImages" ->
             form.generationMode = REFERENCES_TO_VIDEO /\ AddProductShown(form)
      [] slot = "inputVideo" ->
             form.generationMode = EXTEND_VIDEO /\ form.inputVideo = Null

\* handleFileChange up to its await: fileToBase64(file) is started
PickFile(slot, file) ==
    /\ FormShown
    /\ PickerShown(slot)
    /\ Cardinality(converting) < MaxConverting
    /\ [slot |-> slot, file |-> file] \notin converting
    /\ converting' = converting \cup {[slot |-> slot, file |-> file]}
    /\ UNCHANGED <<formFrame, form>>

\* the onSelect of each control
Select(f, slot, file) ==
    CASE slot = "startFrame" -> [f EXCEPT !.startFrame = Some(file)]
      [] slot = "endFrame" -> [f EXCEPT !.endFrame = Some(file)]
      [] slot = "logoImage" -> [f EXCEPT !.logoImage = Some(file)]
      [] slot = "referenceImages" ->
             [f EXCEPT !.referenceImages = Append(f.referenceImages, file)]
      [] slot = "inputVideo" -> [f EXCEPT !.inputVideo = Some(file)]

\* await fileToImageFile(file) resolves: onSelect(imageFile)
ConversionResolves(c) ==
    /\ FormShown
    /\ c \in converting
    /\ converting' = converting \ {c}
    /\ form' = Select(form, c.slot, c.file)
    /\ UNCHANGED formFrame

\* await fileToImageFile(file) rejects: console.error
ConversionRejects(c) ==
    /\ FormShown
    /\ c \in converting
    /\ converting' = converting \ {c}
    /\ UNCHANGED <<formFrame, form>>

\* imgs.filter((_, i) => i !== index)
RemoveAt(imgs, index) ==
    [i \in 1..(Len(imgs) - 1) |-> IF i < index THEN imgs[i] ELSE imgs[i + 1]]

\* the onRemove of each control
Remove(f, slot, index) ==
    CASE slot = "startFrame" -> [f EXCEPT !.startFrame = Null, !.isLooping = FALSE]
      [] slot = "endFrame" -> [f EXCEPT !.endFrame = Null]
      [] slot = "logoImage" -> [f EXCEPT !.logoImage = Null]
      [] slot = "referenceImages" ->
             [f EXCEPT !.referenceImages = RemoveAt(f.referenceImages, index)]
      [] slot = "inputVideo" -> [f EXCEPT !.inputVideo = Null, !.inputVideoObject = Null]

\* the control of a slot is rendered and shows a preview with its remove button
PreviewShown(slot, index) ==
    CASE slot = "startFrame" ->
             form.generationMode = FRAMES_TO_VIDEO /\ form.startFrame # Null
      [] slot = "endFrame" ->
             form.generationMode = FRAMES_TO_VIDEO /\ ~form.isLooping /\ form.endFrame # Null
      [] slot = "logoImage" ->
             form.generationMode = REFERENCES_TO_VIDEO /\ form.logoImage # Null
      [] slot = "referenceImages" ->
             form.generationMode = REFERENCES_TO_VIDEO /\ index \in 1..Len(form.referenceImages)
      [] slot = "inputVideo" ->
             form.generationMode = EXTEND_VIDEO /\ form.inputVideo # Null

\* a remove button is pressed
RemoveFile(slot, index) ==
    /\ FormShown
    /\ PreviewShown(slot, index)
    /\ form' = Remove(form, slot, index)
    /\ UNCHANGED <<formFrame, converting>>

\* the loop checkbox, rendered when startFrame && !endFrame
SetIsLooping(checked) ==
    /\ FormShown
    /\ form.generationMode = FRAMES_TO_VIDEO
    /\ form.startFrame # Null /\ form.endFrame = Null
    /\ checked # form.isLooping
    /\ form' = [form EXCEPT !.isLooping = checked]
    /\ UNCHANGED <<formFrame, converting>>

\* mutant: the submit button is never disabled
SubmitNeverDisabled(f) == FALSE

\* isSubmitDisabled
IsSubmitDisabled(f) ==
    CASE f.generationMode = TEXT_TO_VIDEO -> Trim(f.prompt) = <<>>
      [] f.generationMode = FRAMES_TO_VIDEO -> f.startFrame = Null
      [] f.generationMode = REFERENCES_TO_VIDEO ->
             \/ Len(f.referenceImages) = 0 /\ f.logoImage = Null
             \/ Trim(f.prompt) = <<>>
      [] f.generationMode = EXTEND_VIDEO -> f.inputVideoObject = Null

\* the object handleSubmit passes to onGenerate
FormParams(f) ==
    [prompt |-> f.prompt, model |-> f.model, aspectRatio |-> f.aspectRatio,
     resolution |-> f.resolution, mode |-> f.generationMode,
     startFrame |-> f.startFrame, endFrame |-> f.endFrame,
     referenceImages |-> Some(f.referenceImages), logoImage |-> f.logoImage,
     inputVideo |-> f.inputVideo, inputVideoObject |-> f.inputVideoObject,
     isLooping |-> f.isLooping]

\* the submit button, enabled unless isSubmitDisabled: handleSubmit calls
\* onGenerate, which is handleGenerate
HandleSubmit ==
    /\ ~IsSubmitDisabled(form)
    /\ HandleGenerateNoHost(FormParams(form))

\* ------------------------------------------------------ askCatalogAssistant
\* the catalogue text interpolated into the system instruction (abridged)
CATALOG_DATA == "CATALOGO DIC 2025 - ENE 2026"

\* config.systemInstruction: a fixed text ending with CATALOG_DATA (abridged)
SystemInstruction == <<"Eres el Asistente Estrategico y Operativo de Antu Kuyen Agro.", CATALOG_DATA>>

\* the history arguments a caller may pass; the default is []
ChatHistories == {<<>>, <<[role |-> "user", parts |-> <<[text |-> <<"a">>]>>]>>}

\* what the user types in the chat box
ChatInputs == {<<>>, <<Space>>, <<"a">>}

\* response.text: undefined, the empty string or a text
ReplyTexts == {Null, Some(<<>>), Some(<<"r">>)}

\* mutant: the history argument seeds the session
ChatRequestWithHistory(prompt, history) ==
    [model |-> "gemini-3-flash-preview", systemInstruction |-> SystemInstruction,
     history |-> history, message |-> prompt]

\* ai.chats.create({model, config: {systemInstruction}}) and
\* chat.sendMessage({message: prompt}): a new session without history, one message
ChatRequest(prompt, history) ==
    [model |-> "gemini-3-flash-preview", systemInstruction |-> SystemInstruction,
     history |-> <<>>, message |-> prompt]

\* mutant: an answer without text is turned into an error
ReturnTextOrThrow(text) ==
    IF Truthy(text) /\ StringTruthy(Val(text))
    THEN [kind |-> "resolved", error |-> Null, value |-> text]
    ELSE [kind |-> "rejected", error |-> Some(Error(<<"EmptyResponse">>)), value |-> Null]

\* return response.text
ReturnText(text) == [kind |-> "resolved", error |-> Null, value |-> text]

\* askCatalogAssistant(prompt, history) up to its await
AskCatalogAssistant(prompt, history) ==
    /\ chatCalls' = Append(chatCalls, [prompt |-> prompt, history |-> history,
                                       request |-> ChatRequest(prompt, history),
                                       reply |-> Null])
    /\ chatOutcome' = Pending

\* the provider's answer is noted with the call it answers
NoteReply(reply) == [chatCalls EXCEPT ![Len(chatCalls)].reply = Some(reply)]

\* await chat.sendMessage(...) resolves
SendMessageResolves(text) ==
    /\ chatOutcome.kind = "pending"
    /\ chatCalls' = NoteReply([text |-> text])
    /\ chatOutcome' = ReturnText(text)
    /\ UNCHANGED <<hostVars, liveUrls, appVars, callVars, view, formVars,
                   chatMessages, chatInput, isChatLoading>>

\* await chat.sendMessage(...) rejects
SendMessageRejects(msg) ==
    /\ chatOutcome.kind = "pending"
    /\ chatCalls' = NoteReply([error |-> Error(msg)])
    /\ chatOutcome' = [kind |-> "rejected", error |-> Some(Error(msg)), value |-> Null]
    /\ UNCHANGED <<hostVars, liveUrls, appVars, callVars, view, formVars,
                   chatMessages, chatInput, isChatLoading>>

\* a caller other than the App calls askCatalogAssistant(prompt, history)
CallAskCatalogAssistant(prompt, history) ==
    /\ chatOutcome.kind # "pending"
    /\ Len(chatCalls) < MaxSends
    /\ AskCatalogAssistant(prompt, history)
    /\ UNCHANGED <<hostVars, liveUrls, appVars, callVars, view, formVars,
                   chatMessages, chatInput, isChatLoading>>

\* -------------------------------------------------------- handleSendMessage
\* the chat box onChange: setChatInput(e.target.value)
SetChatInput(text) ==
    /\ view = AI_ASSISTANT
    /\ text # chatInput
    /\ chatInput' = text
    /\ UNCHANGED <<hostVars, liveUrls, appVars, callVars, view, formVars,
                   chatMessages, isChatLoading, chatCalls, chatOutcome>>

\* mutant: a blank input is not refused
SendRefusedOnlyWhileLoading == isChatLoading

\* if (!chatInput.trim() || isChatLoading) return
SendRefused == Trim(chatInput) = <<>> \/ isChatLoading

\* lines 128-135: the chat form is submitted
HandleSendMessage ==
    /\ view = AI_ASSISTANT
    /\ ~SendRefused
    /\ Len(chatCalls) < MaxSends
    /\ chatInput' = <<>>
    /\ chatMessages' = Append(chatMessages, [role |-> "user", text |-> chatInput])
    /\ isChatLoading' = TRUE
    /\ AskCatalogAssistant(chatInput, <<>>)
    /\ UNCHANGED <<hostVars, liveUrls, appVars, callVars, view, formVars>>

\* response || 'No pude procesar eso.'
ReplyText(response) ==
    IF Truthy(response) /\ StringTruthy(Val(response))
    THEN Val(response)
    ELSE <<"No pude procesar eso.">>

\* lines 136-141: the await of askCatalogAssistant resumes in try or in catch,
\* then finally
ChatSettled ==
    /\ isChatLoading
    /\ chatOutcome.kind \in {"resolved", "rejected"}
    /\ chatMessages' = Append(chatMessages,
            [role |-> "model",
             text |-> IF chatOutcome.kind = "resolved"
                      THEN ReplyText(chatOutcome.value)
                      ELSE <<"Error de conexión con el asistente.">>])
    /\ isChatLoading' = FALSE
    /\ UNCHANGED <<hostVars, liveUrls, appVars, callVars, view, formVars,
                   chatInput, chatCalls, chatOutcome>>

\* ----------------------------------------------------------- specifications
Next ==
    \/ \E mode \in ViewMode : SetView(mode)
    \/ FormShown /\ Cardinality(liveUrls) < MaxUrls /\ \E p \in JobParams : HandleGenerateNoHost(p)
    \/ FormShown /\ Cardinality(liveUrls) < MaxUrls /\ \E p \in JobParams : HandleGenerateHost(p)
    \/ KeySelected
    \/ KeyNotSelected
    \/ KeyCheckRejects
    \/ \E name \in OperationNames : \E op \in Operations(name) : SubmitResolves(op)
    \/ \E msg \in ProviderMessages : SubmitRejects(msg)
    \/ TimerFires
    \/ \E name \in OperationNames : \E op \in Operations(name) : PollResolves(op)
    \/ \E msg \in ProviderMessages : PollRejects(msg)
    \/ \E status \in FetchStatuses : FetchResolves(status)
    \/ \E msg \in ProviderMessages : FetchRejects(msg)
    \/ BlobResolves
    \/ \E msg \in ProviderMessages : BlobRejects(msg)
    \/ GenerationSettled
    \/ BackToForm
    \/ DialogContinue

Spec == Init /\ [][Next]_vars

\* every asynchronous step that was started settles and its continuation
\* runs: the provider calls and the asset fetch answer, the timer fires
ProviderAnswers ==
    \/ \E name \in OperationNames : \E op \in Operations(name) : SubmitResolves(op)
    \/ \E msg \in ProviderMessages : SubmitRejects(msg)
    \/ \E name \in OperationNames : \E op \in Operations(name) : PollResolves(op)
    \/ \E msg \in ProviderMessages : PollRejects(msg)

FetchAnswers ==
    \/ \E status \in FetchStatuses : FetchResolves(status)
    \/ \E msg \in ProviderMessages : FetchRejects(msg)
    \/ BlobResolves
    \/ \E msg \in ProviderMessages : BlobRejects(msg)

Fairness ==
    /\ WF_vars(ProviderAnswers)
    /\ WF_vars(FetchAnswers)
    /\ WF_vars(TimerFires)
    /\ WF_vars(GenerationSettled)

LiveSpec == Init /\ [][Next]_vars /\ Fairness

\* the payload assembly applied to every request of AllParams
\* the assistant view of the App: navigation, typing, sending and the answers
NextChat ==
    \/ \E mode \in ViewMode : SetView(mode)
    \/ \E text \in ChatInputs : SetChatInput(text)
    \/ HandleSendMessage
    \/ \E text \in ReplyTexts : SendMessageResolves(text)
    \/ \E msg \in ProviderMessages : SendMessageRejects(msg)
    \/ ChatSettled

SpecChat == Init /\ [][NextChat]_vars

\* the provider answers the chat message, with a text, without one or with an error
ChatAnswers ==
    \/ \E text \in ReplyTexts : SendMessageResolves(text)
    \/ \E msg \in ProviderMessages : SendMessageRejects(msg)

\* the chat call settles and handleSendMessage resumes
ChatFairness ==
    /\ WF_vars(ChatAnswers)
    /\ WF_vars(ChatSettled)

LiveSpecChat == SpecChat /\ ChatFairness

\* askCatalogAssistant called with every prompt and history, one call at a time
NextAsk ==
    \/ \E prompt \in ChatInputs : \E history \in ChatHistories :
           CallAskCatalogAssistant(prompt, history)
    \/ \E text \in ReplyTexts : SendMessageResolves(text)
    \/ \E msg \in ProviderMessages : SendMessageRejects(msg)

SpecAsk == Init /\ [][NextAsk]_vars

\* the requests and the provider answers under which the whole App is
\* explored: a text request and an extend request without handle; an
\* operation that is running, done without response, or done with one video
AppParams ==
    {p \in JobParams : p.inputVideoObject = Null /\ p.mode \in {TEXT_TO_VIDEO, EXTEND_VIDEO}}

AppOperations ==
    {op \in Operations("operations/op1") :
        \/ op.response = Null
        \/ /\ op.response[1].generatedVideos # Null
           /\ Len(op.response[1].generatedVideos[1]) = 1
           /\ op.response[1].generatedVideos[1][1].video # Null}

\* the whole App: navigation, the studio with its generation workflow and the
\* assistant chat, interleaved; a chat message is sent, and sent again only
\* after a failed one
NextApp ==
    \/ \E mode \in ViewMode : SetView(mode)
    \/ FormShown /\ Cardinality(liveUrls) < MaxUrls /\ \E p \in AppParams : HandleGenerateNoHost(p)
    \/ FormShown /\ Cardinality(liveUrls) < MaxUrls /\ \E p \in AppParams : HandleGenerateHost(p)
    \/ KeySelected
    \/ KeyNotSelected
    \/ KeyCheckRejects
    \/ \E op \in AppOperations : SubmitResolves(op)
    \/ \E msg \in ProviderMessages : SubmitRejects(msg)
    \/ TimerFires
    \/ \E op \in AppOperations : PollResolves(op)
    \/ \E msg \in ProviderMessages : PollRejects(msg)
    \/ \E status \in FetchStatuses : FetchResolves(status)
    \/ \E msg \in ProviderMessages : FetchRejects(msg)
    \/ BlobResolves
    \/ \E msg \in ProviderMessages : BlobRejects(msg)
    \/ GenerationSettled
    \/ BackToForm
    \/ DialogContinue
    \/ \E text \in ChatInputs : SetChatInput(text)
    \/ (chatCalls = <<>> \/ chatOutcome.kind = "rejected") /\ HandleSendMessage
    \/ \E text \in ReplyTexts : SendMessageResolves(text)
    \/ \E msg \in ProviderMessages : SendMessageRejects(msg)
    \/ ChatSettled

SpecApp == Init /\ [][NextApp]_vars

\* the app in a host with a key check: the mount-time check, submissions that
\* overlap the key check of an earlier one, the job, retries and view switches
InitOverlap == InitWith({TRUE}, {CATALOG})

NextOverlap ==
    \/ \E selected \in BOOLEAN : CheckApiKeyResolves(selected)
    \/ CheckApiKeyRejects
    \/ \E mode \in {CATALOG, VIDEO_STUDIO} : SetView(mode)
    \/ FormShown /\ Cardinality(liveUrls) < MaxUrls /\ \E p \in AppParams : HandleGenerateHost(p)
    \/ Cardinality(liveUrls) < MaxUrls /\ \E p \in AppParams : HandleGenerateAgain(p)
    \/ KeySelected
    \/ KeyNotSelected
    \/ KeyCheckRejects
    \/ \E op \in AppOperations : SubmitResolves(op)
    \/ \E msg \in ProviderMessages : SubmitRejects(msg)
    \/ TimerFires
    \/ \E op \in AppOperations : PollResolves(op)
    \/ \E msg \in ProviderMessages : PollRejects(msg)
    \/ \E status \in FetchStatuses : FetchResolves(status)
    \/ \E msg \in ProviderMessages : FetchRejects(msg)
    \/ BlobResolves
    \/ \E msg \in ProviderMessages : BlobRejects(msg)
    \/ GenerationSettled
    \/ OtherKeySelected
    \/ OtherKeyNotSelected
    \/ OtherKeyCheckRejects
    \/ OtherGenerationResolves
    \/ \E err \in LateFailures : OtherGenerationRejects(err)
    \/ OtherSettled
    \/ BackToForm
    \/ DialogContinue

SpecOverlap == InitOverlap /\ [][NextOverlap]_vars

\* the studio form: every control of PromptForm, its file conversions, new
\* initialValues from the parent, and the submission
InitForm == InitWith({FALSE}, {VIDEO_STUDIO})

NextForm ==
    \/ \E iv \in FormInitialValues : InitialValuesUpdate(iv)
    \/ \E text \in FormPrompts : SetPrompt(text)
    \/ \E m \in VeoModel : SetModel(m)
    \/ \E ratio \in AspectRatio : SetAspectRatio(ratio)
    \/ \E res \in Resolution : SetResolution(res)
    \/ \E mode \in GenerationMode : HandleSelectMode(mode)
    \/ LoadTemplate
    \/ \E slot \in Slots : \E file \in Files(slot) : PickFile(slot, file)
    \/ \E c \in converting : ConversionResolves(c)
    \/ \E c \in converting : ConversionRejects(c)
    \/ \E slot \in Slots : \E index \in 1..(MaxConverting + 2) : RemoveFile(slot, index)
    \/ \E checked \in BOOLEAN : SetIsLooping(checked)
    \/ HandleSubmit

SpecForm == InitForm /\ [][NextForm]_vars

InitPayload == InitWith({FALSE}, {VIDEO_STUDIO})

NextPayload == FormShown /\ \E p \in AllParams : HandleGenerateNoHost(p)

SpecPayload == InitPayload /\ [][NextPayload]_vars

\* ------------------------------------------------------------------ claims
\* the request and the payload of the call that is being followed
Request == Val(params)

Payload == Val(sent)

\* the reference images the payload carries, none when the field is absent
SentReferences ==
    IF Has(Payload.config, "referenceImages") THEN Payload.config.referenceImages ELSE <<>>

\* the images the request supplies for the reference list, logo first
SuppliedReferences ==
    (IF Request.logoImage # Null THEN <<Request.logoImage[1]>> ELSE <<>>)
        \o (IF Request.referenceImages # Null THEN Request.referenceImages[1] ELSE <<>>)

\* the payload entry at position i carries the bytes and the type of img
CarriesImage(part, img) == part.imageBytes = img.base64 /\ part.mimeType = img.file.type

\* C1: a request in ExtendVideo mode without a provider video handle makes
\* generateVideo fail with the configuration error, and no generateVideos call,
\* no poll and no fetch is made for it, before or after the failure.
C1_ExtendWithoutHandleFailsBeforeAnyCall ==
    (params # Null /\ Request.mode = EXTEND_VIDEO /\ Request.inputVideoObject = Null) =>
        /\ submitCalls = 0 /\ pollCalls = 0 /\ fetchCalls = 0 /\ urlsCreated = 0
        /\ sent = Null /\ operation = Null
        /\ pc \in {"awaitKey", "settled", "idle"}
        /\ outcome.kind \in {"none", "rejected"}
        /\ outcome.kind = "rejected" =>
               outcome.error[1].message = <<"An input video object is required to extend a video.">>
        /\ appState \in {LOADING, ERROR} => outcome.kind = "rejected"

C1_Witness ==
    /\ params # Null /\ Request.mode = EXTEND_VIDEO /\ Request.inputVideoObject = Null
    /\ outcome.kind = "rejected"
    /\ appState = ERROR

\* C2: a request whose prompt is empty or only whitespace is submitted with a
\* payload that has no prompt field.
C2_BlankPromptIsNotSent ==
    (sent # Null /\ Trim(Request.prompt) = <<>>) => ~Has(Payload, "prompt")

\* C3: the payload carries a reference-image list only in ReferencesToVideo
\* mode, whatever logo or reference images the request holds.
C3_ReferencesOnlyInReferencesMode ==
    (sent # Null /\ Has(Payload.config, "referenceImages")) =>
        Request.mode = REFERENCES_TO_VIDEO

\* C4: the reference-image list sent has at most 3 entries; it is the logo
\* (when there is one) followed by the reference images in their order, cut
\* after the third entry, and cutting raises no error.
C4_ReferenceListCappedAtThree ==
    (params # Null /\ ~(Request.mode = EXTEND_VIDEO /\ Request.inputVideoObject = Null)) =>
        /\ sent # Null
        /\ outcome.kind = "pending"
        /\ Len(SentReferences) <= 3
        /\ Len(SentReferences) = IF Len(SuppliedReferences) > 3 THEN 3 ELSE Len(SuppliedReferences)
        /\ \A i \in 1..Len(SentReferences) :
               CarriesImage(SentReferences[i].image, SuppliedReferences[i])

C4_Witness ==
    /\ sent # Null
    /\ Request.logoImage # Null
    /\ Request.referenceImages # Null
    /\ 1 + Len(Request.referenceImages[1]) > 3
    /\ Request.logoImage[1] # Request.referenceImages[1][1]
    /\ Request.referenceImages[1][1] # Request.referenceImages[1][2]
    /\ Len(SentReferences) = 3

\* C5: in FramesToVideo mode with isLooping set, the last frame sent is the
\* start frame whatever endFrame holds, and no last frame is sent when there
\* is no start frame.
C5_LoopingLastFrameIsStartFrame ==
    (sent # Null /\ Request.mode = FRAMES_TO_VIDEO /\ Request.isLooping) =>
        IF Request.startFrame # Null
        THEN /\ Has(Payload.config, "lastFrame")
             /\ CarriesImage(Payload.config.lastFrame, Request.startFrame[1])
        ELSE ~Has(Payload.config, "lastFrame")

C5_Witness ==
    /\ sent # Null /\ Request.mode = FRAMES_TO_VIDEO /\ Request.isLooping
    /\ Request.startFrame # Null /\ Request.endFrame # Null
    /\ Request.startFrame # Request.endFrame
    /\ Has(Payload.config, "lastFrame")

\* the operation generateVideo holds has been observed with done = true
ObservedDone == operation # Null /\ operation[1].done

\* C6: within one call the job is submitted at most once; a poll is made only
\* for an operation not yet observed done, hands over the operation the call
\* holds and submits nothing; once the operation was observed done the call
\* makes no further poll, and the video returned is the first one of that
\* operation.
C6_SubmittedOncePolledUntilDone ==
    /\ [](/\ submitCalls <= 1
          /\ polled # Null => (operation # Null /\ polled[1].name = operation[1].name)
          /\ outcome.kind = "resolved" =>
                 /\ ObservedDone
                 /\ submitCalls = 1
                 /\ outcome.value[1].video = operation[1].response[1].generatedVideos[1][1].video[1])
    /\ [][/\ pollCalls' > pollCalls =>
               /\ operation # Null /\ ~operation[1].done
               /\ polled' = operation
               /\ submitCalls' = submitCalls /\ sent' = sent
          /\ (ObservedDone /\ pc # "idle") =>
               (pollCalls' = pollCalls /\ operation' = operation /\ submitCalls' = submitCalls)]_vars

C6_Witness ==
    /\ outcome.kind = "resolved"
    /\ pollCalls >= 2
    /\ submitCalls = 1

\* the errors of the step that follows the polling loop
IsNoVideoOrFetchError(err) ==
    \/ err.message = <<"No videos generated.">>
    \/ err.message[1] = "Failed to fetch video: "

\* C7: no video is returned and no no-video or fetch error is raised while the
\* operation last observed has done = false; the loop has no attempt limit
\* (after any explored number of polls the next poll is still made), and it
\* is left only when the provider reports done or a provider call throws.
C7_LoopLeftOnlyWhenDoneOrThrown ==
    /\ [](/\ (\/ outcome.kind = "resolved"
              \/ outcome.kind = "rejected" /\ IsNoVideoOrFetchError(outcome.error[1])
              \/ pc \in {"awaitFetch", "awaitBlob"}) => ObservedDone
          /\ (operation # Null /\ ~operation[1].done /\ outcome.kind = "pending") =>
                 pc \in {"sleeping", "awaitPoll"}
          /\ (pc = "sleeping" /\ pollCalls < MaxPolls) => ENABLED TimerFires)
    /\ [][(pc \in {"awaitSubmit", "sleeping", "awaitPoll"}
              /\ pc' \notin {"awaitSubmit", "sleeping", "awaitPoll"}) =>
          \/ operation' # Null /\ operation'[1].done
          \/ /\ outcome'.kind = "rejected"
             /\ outcome'.error[1].message \in ProviderMessages
             /\ pc \in {"awaitSubmit", "awaitPoll"}]_vars

C7_Witness ==
    /\ pc = "awaitPoll"
    /\ pollCalls = MaxPolls
    /\ ~operation[1].done
    /\ outcome.kind = "pending"

\* the finished operation holds no produced video: no response, no list, or
\* an empty list
ZeroVideos(op) ==
    \/ op.response = Null
    \/ op.response[1].generatedVideos = Null
    \/ op.response[1].generatedVideos[1] = <<>>

\* C9: when the operation is done and holds zero produced videos (no response,
\* no list or an empty list), generateVideo fails with the no-video error and
\* makes no asset fetch.
C9_NoVideoProducedFailsWithoutFetch ==
    (ObservedDone /\ ZeroVideos(operation[1])) =>
        /\ outcome.kind = "rejected"
        /\ outcome.error[1].message = <<"No videos generated.">>
        /\ fetchCalls = 0
        /\ fetchStatus = Null
        /\ urlsCreated = 0

C9_Witness ==
    /\ ObservedDone
    /\ operation[1].response # Null
    /\ operation[1].response[1].generatedVideos = Some(<<>>)
    /\ outcome.kind = "rejected"
    /\ pollCalls > 0

\* C10: when the asset fetch answers with a status outside 200..299,
\* generateVideo fails with the fetch error that carries this status and no
\* object URL is created.
C10_FailedFetchCarriesStatus ==
    (fetchStatus # Null /\ ~(fetchStatus[1] \in 200..299)) =>
        /\ outcome.kind = "rejected"
        /\ outcome.error[1].message = <<"Failed to fetch video: ", fetchStatus[1]>>
        /\ urlsCreated = 0
        /\ pc \in {"settled", "idle"}

C10_Witness ==
    /\ fetchStatus = Some(403)
    /\ outcome.kind = "rejected"
    /\ appState = ERROR
    /\ errorMessage = Some(<<"Failed to fetch video: ", 403>>)

\* C11: the configuration sent has numberOfVideos = 1 and the requested
\* resolution, and it holds aspectRatio, equal to the requested one, exactly
\* when the mode is not ExtendVideo.
C11_ConfigCountResolutionAspectRatio ==
    sent # Null =>
        /\ Payload.config.numberOfVideos = 1
        /\ Payload.config.resolution = Request.resolution
        /\ Has(Payload.config, "aspectRatio") <=> Request.mode # EXTEND_VIDEO
        /\ Has(Payload.config, "aspectRatio") =>
               Payload.config.aspectRatio = Request.aspectRatio

C11_Witness ==
    /\ sent # Null
    /\ Request.mode = EXTEND_VIDEO
    /\ Request.aspectRatio = PORTRAIT
    /\ Request.resolution = P1080
    /\ DOMAIN Payload.config = {"numberOfVideos", "resolution"}

\* the image bytes the payload carries, in any of its fields
BytesSent ==
    (IF Has(Payload, "image") THEN {Payload.image.imageBytes} ELSE {})
        \cup (IF Has(Payload.config, "lastFrame")
              THEN {Payload.config.lastFrame.imageBytes} ELSE {})
        \cup {SentReferences[i].image.imageBytes : i \in 1..Len(SentReferences)}

\* C20: the payload carries a primary image or a last frame only in
\* FramesToVideo mode and a video to extend, the provider handle, only in
\* ExtendVideo mode, whatever the request holds in those fields; the raw bytes
\* of inputVideo are sent in no mode.
C20_ModeFieldsOnlyInTheirMode ==
    sent # Null =>
        /\ (Has(Payload, "image") \/ Has(Payload.config, "lastFrame")) =>
               Request.mode = FRAMES_TO_VIDEO
        /\ Has(Payload, "video") =>
               /\ Request.mode = EXTEND_VIDEO
               /\ Some(Payload.video) = Request.inputVideoObject
        /\ DOMAIN Payload \subseteq {"model", "config", "prompt", "image", "video"}
        /\ Request.inputVideo # Null =>
               /\ Request.inputVideo[1].base64 \notin BytesSent
               /\ Has(Payload, "video") => Payload.video \notin VideoFile

C20_Witness ==
    /\ sent # Null
    /\ Request.mode = TEXT_TO_VIDEO
    /\ Request.startFrame # Null /\ Request.endFrame # Null
    /\ Request.inputVideo # Null /\ Request.inputVideoObject # Null
    /\ DOMAIN Payload = {"model", "config", "prompt"}
    /\ ~Has(Payload.config, "lastFrame")

\* C18: once no generateVideo call is in flight, every object URL that was
\* created and is not the one on display (videoUrl) has been revoked, so at
\* most the displayed asset's URL is still live.
C18_ReplacedObjectUrlsAreReleased ==
    pc = "idle" => \A url \in liveUrls : videoUrl = Some(url)

\* the latest askCatalogAssistant call
LastChatCall == chatCalls[Len(chatCalls)]

\* the provider answered the latest chat message without text (undefined or "")
NoTextReturned ==
    /\ chatCalls # <<>>
    /\ LastChatCall.reply # Null
    /\ Has(LastChatCall.reply[1], "text")
    /\ LastChatCall.reply[1].text \in {Null, Some(<<>>)}

\* the provider call of the latest chat message threw
ChatProviderThrew ==
    /\ chatCalls # <<>>
    /\ LastChatCall.reply # Null
    /\ Has(LastChatCall.reply[1], "error")

C16_RequestDependsOnPromptOnly ==
    /\ \A i \in 1..Len(chatCalls) :
           /\ chatCalls[i].request.history = <<>>
           /\ chatCalls[i].request.message = chatCalls[i].prompt
           /\ chatCalls[i].request.systemInstruction = SystemInstruction
           /\ chatCalls[i].request.model = "gemini-3-flash-preview"
    /\ \A i, j \in 1..Len(chatCalls) :
           chatCalls[i].prompt = chatCalls[j].prompt =>
               chatCalls[i].request = chatCalls[j].request

C16_Witness ==
    /\ Len(chatCalls) = 2
    /\ chatCalls[1].prompt = chatCalls[2].prompt
    /\ chatCalls[1].history # chatCalls[2].history
    /\ chatCalls[1].reply # Null
    /\ chatCalls[1].request = chatCalls[2].request

\* the handleGenerate call resumes in its catch block
GenerationFailed == pc = "settled" /\ outcome.kind = "rejected"

\* C13: every failure of generateVideo (configuration error, provider error,
\* no video produced, failed asset fetch) resumes handleGenerate in its catch
\* block, which sets the job state to ERROR with a non-empty message and
\* changes nothing else: videoUrl, the view, the dialog flag and the chat
\* stay as they were.
C13_FailureSurfacedAndContained ==
    /\ [](GenerationFailed => ENABLED GenerationSettled)
    /\ [](appState = ERROR =>
              /\ errorMessage # Null
              /\ errorMessage[1] # <<"">>
              /\ errorMessage[1] # <<>>)
    /\ [][(GenerationFailed /\ pc' # pc) =>
              /\ appState' = ERROR
              /\ errorMessage' # Null
              /\ \/ errorMessage'[1] = outcome.error[1].message
                 \/ errorMessage'[1] = <<"An unknown error occurred.">>
              /\ UNCHANGED <<videoUrl, view, showApiKeyDialog, chatVars, liveUrls>>]_vars

C13_Witness ==
    /\ appState = ERROR
    /\ outcome.kind = "rejected"
    /\ outcome.error = Some(Error(<<"">>))
    /\ errorMessage = Some(<<"An unknown error occurred.">>)
    /\ videoUrl # Null
    /\ view = AI_ASSISTANT
    /\ Len(chatMessages) = 3

\* C14: after generateVideo failed, the call issues no further provider call:
\* its position changes only when handleGenerate resumes, and a new call
\* starts only from the form, which is shown again only after the user asked
\* for it; an askCatalogAssistant call is made only in the step in which the
\* user's non-blank message is appended to the transcript.
C14_NoAutomaticResubmission ==
    /\ [][(outcome.kind = "rejected" /\ pc' # pc) =>
              \/ pc = "settled" /\ pc' = "idle"
              \/ FormShown /\ appState = IDLE]_vars
    /\ [][(outcome.kind = "rejected" /\ pc = "idle" /\ appState = ERROR /\ appState' # ERROR) =>
              (appState' = IDLE /\ pc' = "idle")]_vars
    /\ [][chatCalls' # chatCalls /\ Len(chatCalls') > Len(chatCalls) =>
              /\ ~isChatLoading
              /\ Trim(chatInput) # <<>>
              /\ chatMessages' = Append(chatMessages, [role |-> "user", text |-> chatInput])]_vars
    /\ [][(chatOutcome.kind = "rejected" /\ chatOutcome' # chatOutcome) =>
              Len(chatCalls') = Len(chatCalls) + 1]_vars

C14_Witness ==
    /\ outcome.kind = "rejected"
    /\ appState = IDLE
    /\ pc = "idle"
    /\ pollCalls > 0
    /\ Len(chatCalls) = 2
    /\ chatOutcome.kind = "pending"

C12_ReferencesModeSubmitsForcedModel ==
    (params # Null /\ Request.mode = REFERENCES_TO_VIDEO) => Request.model = VEO

\* C19: the form's referenceImages never holds more than 2 entries, also when
\* the file conversions of several add-product picks overlap.
C19_ReferenceImagesAtMostTwo == Len(form.referenceImages) <= 2

\* C21: a request submitted through the form satisfies the presence check of
\* its mode: a non-blank prompt in TextToVideo, a start frame in
\* FramesToVideo, a non-blank prompt and a logo or a reference image in
\* ReferencesToVideo, a provider video handle in ExtendVideo; so no submitted
\* request fails with the missing-handle configuration error.
C21_SubmittedRequestPassesPresenceCheck ==
    params # Null =>
        /\ Request.mode = TEXT_TO_VIDEO => Trim(Request.prompt) # <<>>
        /\ Request.mode = FRAMES_TO_VIDEO => Request.startFrame # Null
        /\ Request.mode = REFERENCES_TO_VIDEO =>
               /\ Trim(Request.prompt) # <<>>
               /\ Request.logoImage # Null \/ Len(Request.referenceImages[1]) > 0
        /\ Request.mode = EXTEND_VIDEO => Request.inputVideoObject # Null
        /\ outcome.error # Some(ConfigurationError)
        /\ sent # Null

C21_Witness ==
    /\ params # Null
    /\ Request.mode = EXTEND_VIDEO
    /\ Request.inputVideoObject # Null
    /\ Request.prompt = <<>>
    /\ sent # Null /\ Has(Payload, "video")

\* C27: in the form, isLooping implies that a start frame is present and no
\* end frame is set, also when an end-frame pick finishes its conversion
\* after the loop box was ticked.
C27_LoopingNeedsStartAndNoEndFrame ==
    form.isLooping => (form.startFrame # Null /\ form.endFrame = Null)

\* the model-role entry that answers the i-th chat call
ModelEntryFor(i) ==
    LET reply == chatCalls[i].reply[1]
    IN  [role |-> "model",
         text |-> IF Has(reply, "error") THEN <<"Error de conexión con el asistente.">>
                  ELSE IF reply.text \in {Null, Some(<<>>)} THEN <<"No pude procesar eso.">>
                  ELSE reply.text[1]]

\* C26: the transcript only grows at its end; after the welcome entry it holds,
\* for every accepted send in order, the user's message and then one model
\* entry (the reply, the fallback text for an empty reply, or the
\* connection-error text), the model entry missing only for the send in
\* flight; a send is accepted, and a provider call made, only with a
\* non-blank input and no chat call in flight; and once the provider has
\* answered, the chat-loading flag is reset to false.
C26_TranscriptGrowsByUserThenModelEntry ==
    /\ [][\/ chatMessages' = chatMessages
          \/ /\ Len(chatMessages') = Len(chatMessages) + 1
             /\ SubSeq(chatMessages', 1, Len(chatMessages)) = chatMessages]_vars
    /\ [](/\ chatMessages[1] = WelcomeMessage
          /\ Len(chatMessages) = 2 * Len(chatCalls) + (IF isChatLoading THEN 0 ELSE 1)
          /\ \A i \in 1..Len(chatCalls) :
                 /\ chatMessages[2 * i] = [role |-> "user", text |-> chatCalls[i].prompt]
                 /\ Trim(chatCalls[i].prompt) # <<>>
                 /\ (i < Len(chatCalls) \/ ~isChatLoading) =>
                        chatMessages[2 * i + 1] = ModelEntryFor(i))
    /\ [][Len(chatCalls') # Len(chatCalls) =>
              /\ Trim(chatInput) # <<>>
              /\ ~isChatLoading
              /\ chatOutcome.kind # "pending"
              /\ Len(chatCalls') = Len(chatCalls) + 1
              /\ isChatLoading']_vars
    /\ isChatLoading ~> ~isChatLoading

C26_Witness ==
    /\ Len(chatMessages) = 5
    /\ ~isChatLoading
    /\ chatMessages[3].text = <<"No pude procesar eso.">>
    /\ chatMessages[5].text = <<"Error de conexión con el asistente.">>
    /\ chatInput = <<Space>>

\* the followed call's generateVideo has neither returned nor thrown
InFlight == pc \in {"awaitSubmit", "sleeping", "awaitPoll", "awaitFetch", "awaitBlob"}

\* C22: no second generateVideo call is started while an earlier one has
\* neither completed nor failed.
C22_AtMostOneJobInFlight == ~(InFlight /\ otherCall.pc = "running")

\* C23: the job state changes only from IDLE to LOADING, from LOADING to
\* SUCCESS or ERROR, and from SUCCESS or ERROR to IDLE.
C23_LifecycleEdges ==
    [][appState' # appState =>
          <<appState, appState'>> \in {<<IDLE, LOADING>>, <<LOADING, SUCCESS>>, <<LOADING, ERROR>>,
                                       <<SUCCESS, IDLE>>, <<ERROR, IDLE>>}]_vars

\* a handleGenerate call resumes after its generateVideo resolved
JobSucceeds ==
    \/ pc = "settled" /\ pc' = "idle" /\ outcome.kind = "resolved"
    \/ otherCall.pc = "settled" /\ otherCall'.pc = "none" /\ otherCall.outcome.kind = "resolved"

\* the object URL that call's generateVideo returned
SucceededUrl ==
    IF pc = "settled" /\ pc' = "idle"
    THEN Val(outcome.value).objectUrl
    ELSE Val(otherCall.outcome.value).objectUrl

\* C24: in SUCCESS videoUrl is an object URL, in ERROR errorMessage is a
\* non-empty string and in LOADING errorMessage is null; videoUrl changes
\* only when a job succeeds, to the object URL that job returned, the state
\* becoming SUCCESS in the same step.
C24_StateAndItsFieldsAgree ==
    /\ [](appState = SUCCESS => (videoUrl # Null /\ Val(videoUrl) \in liveUrls))
    /\ [](appState = ERROR => (errorMessage # Null /\ Val(errorMessage) # <<"">>))
    /\ [](appState = LOADING => errorMessage = Null)
    /\ [][JobSucceeds => (videoUrl' = Some(SucceededUrl) /\ appState' = SUCCESS)]_vars
    /\ [][videoUrl' # videoUrl => JobSucceeds]_vars

C24_Witness ==
    /\ appState = SUCCESS
    /\ videoUrl = Some(<<"blob:", 2>>)
    /\ errorMessage = Some(<<"An unknown error occurred.">>)

\* a handleGenerate call returns from its key check without calling generateVideo
KeyCheckEndsTheCall ==
    \/ pc = "awaitKey" /\ pc' = "idle"
    \/ otherCall.pc = "awaitKey" /\ otherCall'.pc = "none"

\* C25: a handleGenerate call that ends at its key check changes neither the
\* job state, the error message nor videoUrl and makes no provider call, then
\* or later; and a step that opens the API-key dialog is the end of a key
\* check, of handleGenerate or of the mount effect, and changes none of these.
C25_NoKeyOnlyOpensDialog ==
    /\ [][(KeyCheckEndsTheCall \/ (showApiKeyDialog' /\ ~showApiKeyDialog)) =>
              /\ UNCHANGED <<appState, errorMessage, videoUrl, liveUrls>>
              /\ UNCHANGED <<sent, operation, submitCalls, pollCalls, fetchCalls, urlsCreated>>
              /\ pc' \in {pc, "idle"}
              /\ otherCall'.pc \in {otherCall.pc, "none"}]_vars
    /\ [][(showApiKeyDialog' /\ ~showApiKeyDialog) =>
              (KeyCheckEndsTheCall \/ (mountCheck = "awaitKey" /\ mountCheck' = "done"))]_vars
    /\ []((pc = "idle" /\ params # Null /\ outcome = NoOutcome) =>
              (sent = Null /\ submitCalls = 0 /\ pollCalls = 0 /\ fetchCalls = 0))

C25_Witness ==
    /\ showApiKeyDialog
    /\ mountCheck = "awaitKey"
    /\ otherCall = NoCall
    /\ pc = "idle" /\ params # Null /\ outcome = NoOutcome
    /\ appState = SUCCESS

\* the call is in its polling loop and the provider has not reported done
StillRunning ==
    /\ pc \in {"sleeping", "awaitPoll"}
    /\ operation # Null
    /\ ~operation[1].done

\* C8: if the provider reports done after finitely many polls (or a poll
\* throws) and the asset fetch answers, every generateVideo call settles, with
\* a produced video or with an error, and the job state leaves LOADING for
\* SUCCESS or ERROR.
C8_CallTerminatesWhenProviderCompletes ==
    (StillRunning ~> ~StillRunning) =>
        /\ (outcome.kind = "pending") ~> (outcome.kind \in {"resolved", "rejected"})
        /\ (appState = LOADING) ~> (appState \in {SUCCESS, ERROR})

C8_Witness ==
    /\ appState = SUCCESS
    /\ outcome.kind = "resolved"
    /\ pollCalls = MaxPolls
    /\ videoUrl = Some(outcome.value[1].objectUrl)

====
